---- MODULE Spec2Model ----
(***************************************************************************)
(* Model of debounce(func, wait, options) of src/src/utils.js: the closure *)
(* state of one debounced function, the timer backend it schedules its     *)
(* wake-ups with (setTimeout or requestAnimationFrame), and a clock.       *)
(* lastThis is set and cleared together with lastArgs and is left out.     *)
(* Times are in milliseconds.                                              *)
(* The other utilities of the repository (before/once, EventEmitter,       *)
(* promiseAllSerial, LightningModal) are objects of their own, each in a   *)
(* variable of its own and with a specification of its own.                *)
(***************************************************************************)
EXTENDS Integers, Sequences, FiniteSets, TLC

\* ------------------------------------------------------------------ bounds
MaxTime == 3        \* the clock runs over 0..MaxTime
MaxCalls == 2       \* calls of the debounced function per behaviour
MaxTimers == 2      \* wake-ups outstanding in the backend at once
MaxWaitArg == 1     \* largest `wait` argument
MaxMaxWaitArg == 2  \* largest `options.maxWait`
\* the same, where wake-ups run on time and bursts are recorded
BurstMaxTime == 8
BurstMaxCalls == 4
BurstMaxWaitArg == 3
BurstMaxMaxWaitArg == 4
ScenarioEnd == 520  \* the clock of the maxWait scenario runs over 0..ScenarioEnd
MaxBeforeN == 4      \* largest `n` given to before()
MaxBeforeCalls == 4  \* calls of a function made by before() or once()
MaxRegs == 2         \* registrations made on an EventEmitter
MaxListeners == 3    \* registrations, where nothing is emitted
MaxEmits == 2        \* emits per behaviour, nested ones included
MaxTasks == 3        \* length of the array given to promiseAllSerial
MaxOpens == 2        \* calls of LightningModal.open
MaxTimeout2 == 2     \* the `timeout` argument of debounce2
MaxCalls2 == 3       \* calls of a function made by debounce2
MaxTime2 == 4        \* the clock, for a function made by debounce2

\* ------------------------------------------------- values of `undefined`
NoTimer == 0        \* timerId === undefined (backend handles are positive)
NoTime == -1        \* lastCallTime === undefined
NoArgs == 0         \* lastArgs === undefined
NoResult == 0       \* result === undefined (func returns a positive value)
NoWait == -1        \* the `wait` argument omitted
NoOpt == -1         \* a key of `options` omitted

Min(a, b) == IF a <= b THEN a ELSE b
Max(a, b) == IF a >= b THEN a ELSE b

VARIABLES
    cfg,            \* what debounce() computed at creation (never changes)
    now,            \* Date.now()
    lastArgs, result, timerId, lastCallTime, lastInvokeTime,
    timers,         \* wake-ups outstanding in the backend: [id, due, kind]
    nCalls,         \* history: how often the debounced function was called
    cancelled,      \* history: cancel() ran and no call was made since
    burst,          \* history: the current burst and its invocations
    last,           \* history: the operation just performed, what it
                    \* returned or that it threw, and the arguments and
                    \* the place of the invocation of func it made, if any
    completed,      \* history: what the latest invocation of func that
                    \* returned has returned
    bf,             \* a function made by before(n, func) or once(func)
    em,             \* an EventEmitter
    ps,             \* a run of promiseAllSerial(tasks)
    modal,          \* a LightningModal
    d2              \* a function made by debounce2(func, isEvent, timeout);
                    \* its wake-ups are in `timers`, its clock is `now`

debounceVars ==
    <<cfg, now, lastArgs, result, timerId, lastCallTime, lastInvokeTime,
      timers, nCalls, cancelled, burst, last, completed, d2>>

\* an object that a specification does not make
NotMade == [made |-> "none"]

vars == <<debounceVars, bf, em, ps, modal>>

\* ------------------------------------------------------------ creation
\* options: either not an object, or an object with optional keys
NotAnObject == [isObject |-> FALSE, leading |-> NoOpt, trailing |-> NoOpt,
                maxWait |-> NoOpt]
OptionInputs(maxMaxWait) ==
    {NotAnObject} \cup
    [isObject : {TRUE}, leading : {NoOpt, 0, 1}, trailing : {NoOpt, 0, 1},
     maxWait : {NoOpt} \cup 0..maxMaxWait]
WaitInputs(maxWait) == {NoWait} \cup 0..maxWait
\* typeof func
FuncInputs == {"function", "object", "undefined"}

\* !!x of an optional boolean key
Truthy(x) == x = 1

\* what debounce() leaves when it throws: nothing is returned
NotCreated(func) ==
    [ error |-> "TypeError", func |-> func, wait |-> NoWait,
      timeToWait |-> 0, useRAF |-> FALSE, leading |-> FALSE,
      maxing |-> FALSE, maxWait |-> NoWait, trailing |-> TRUE ]

\* debounce() creating a debounced function of whatever it is given
DebounceUnchecked(func, wait, options, hasRAF) ==
    LET timeToWait == IF wait = NoWait THEN 0 ELSE wait
        maxing == options.isObject /\ options.maxWait # NoOpt
    IN  [ error |-> "none", func |-> func, wait |-> wait,
          timeToWait |-> timeToWait,
          useRAF |-> (wait = NoWait) /\ hasRAF,
          leading |-> options.isObject /\ Truthy(options.leading),
          maxing |-> maxing,
          maxWait |-> IF maxing THEN Max(options.maxWait, timeToWait)
                      ELSE NoWait,
          trailing |-> IF options.isObject /\ options.trailing # NoOpt
                       THEN Truthy(options.trailing) ELSE TRUE ]

\* debounce() taking options.maxWait as it is given
DebounceUnclamped(func, wait, options, hasRAF) ==
    LET d == DebounceUnchecked(func, wait, options, hasRAF)
    IN  IF func # "function" THEN NotCreated(func)
        ELSE [d EXCEPT !.maxWait = IF d.maxing THEN options.maxWait
                                   ELSE NoWait]

\* debounce() taking the smaller of options.maxWait and wait
DebounceMinCeiling(func, wait, options, hasRAF) ==
    LET d == DebounceUnchecked(func, wait, options, hasRAF)
    IN  IF func # "function" THEN NotCreated(func)
        ELSE [d EXCEPT !.maxWait = IF d.maxing
                                   THEN Min(options.maxWait, d.timeToWait)
                                   ELSE NoWait]

Debounce(func, wait, options, hasRAF) ==
    LET useRAF == (wait = NoWait) /\ hasRAF
        timeToWait == IF wait = NoWait THEN 0 ELSE wait
        maxing == options.isObject /\ options.maxWait # NoOpt
    IN  IF func # "function" THEN NotCreated(func)
        ELSE [ error |-> "none", func |-> func, wait |-> wait,
               timeToWait |-> timeToWait,
               useRAF |-> useRAF,
               leading |-> options.isObject /\ Truthy(options.leading),
               maxing |-> maxing,
               maxWait |-> IF maxing THEN Max(options.maxWait, timeToWait)
                           ELSE NoWait,
               trailing |-> IF options.isObject /\ options.trailing # NoOpt
                            THEN Truthy(options.trailing) ELSE TRUE ]

\* a debounced function was returned
Created == cfg.error = "none"

\* ------------------------------------------------- the closure as a value
\* what func finds when it starts to run: nothing, as long as it has not
NoBegun == [timerId |-> NoTimer, lastArgs |-> NoArgs]

St == [ lastArgs |-> lastArgs, result |-> result, timerId |-> timerId,
        lastCallTime |-> lastCallTime, lastInvokeTime |-> lastInvokeTime,
        timers |-> timers,
        ret |-> NoResult, threw |-> FALSE, inv |-> NoArgs, via |-> "none",
        re |-> "none", begun |-> NoBegun ]

\* what func returns: the bundle it was given
FuncValue(args) == args

\* the closure after an operation
Commit(s, op) ==
    /\ lastArgs' = s.lastArgs
    /\ result' = s.result
    /\ timerId' = s.timerId
    /\ lastCallTime' = s.lastCallTime
    /\ lastInvokeTime' = s.lastInvokeTime
    /\ timers' = s.timers
    /\ last' = [op |-> op, ret |-> s.ret, threw |-> s.threw,
                inv |-> s.inv, via |-> s.via, re |-> s.re,
                begun |-> s.begun]
    /\ completed' = IF s.via # "none" /\ ~s.threw THEN FuncValue(s.inv)
                     ELSE completed
    /\ UNCHANGED <<bf, em, ps, modal, d2>>

\* ------------------------------------------------------- timer backend
TimerIds(ts) == {tm.id : tm \in ts}

\* a handle that identifies no outstanding wake-up and is not the one held
FreshId(ts, held) ==
    CHOOSE n \in 1..(Cardinality(ts) + 2) :
        /\ n \notin TimerIds(ts) \cup {held}
        /\ \A m \in 1..(n - 1) : m \in TimerIds(ts) \cup {held}

\* the two backends: each cancels only what it has scheduled itself
ClearTimeout(ts, id) == {tm \in ts : ~(tm.kind = "timeout" /\ tm.id = id)}
CancelAnimationFrame(ts, id) ==
    {tm \in ts : ~(tm.kind = "frame" /\ tm.id = id)}

\* cancelTimer(id) going to clearTimeout whatever the backend in use
CancelTimerTimeoutOnly(ts, id) == ClearTimeout(ts, id)

\* cancelTimer(id)
CancelTimer(ts, id) ==
    IF cfg.useRAF THEN CancelAnimationFrame(ts, id) ELSE ClearTimeout(ts, id)

\* startTimer(pendingFunc, waitFor): the new backend and the new handle.
\* A frame callback is due at the next frame, whenever that is.
StartTimer(s, waitFor, time) ==
    LET ts == IF cfg.useRAF THEN CancelAnimationFrame(s.timers, s.timerId)
              ELSE s.timers
        id == FreshId(ts, s.timerId)
        due == IF cfg.useRAF THEN time ELSE time + Max(waitFor, 0)
        kind == IF cfg.useRAF THEN "frame" ELSE "timeout"
    IN  [s EXCEPT !.timers = ts \cup {[id |-> id, due |-> due,
                                       kind |-> kind]},
                  !.timerId = id]

\* ------------------------------------------------------------ cancel()
\* cancel() leaving the pending arguments in place
CancelOpKeepsArgs(s) ==
    LET ts == IF s.timerId # NoTimer THEN CancelTimer(s.timers, s.timerId)
              ELSE s.timers
    IN  [s EXCEPT !.timers = ts,
                  !.lastInvokeTime = 0,
                  !.lastCallTime = NoTime,
                  !.timerId = NoTimer]

\* cancel() forgetting the last result as well
CancelOpClearsResult(s) ==
    LET ts == IF s.timerId # NoTimer THEN CancelTimer(s.timers, s.timerId)
              ELSE s.timers
    IN  [s EXCEPT !.timers = ts, !.lastInvokeTime = 0, !.lastArgs = NoArgs,
                  !.lastCallTime = NoTime, !.timerId = NoTimer,
                  !.result = NoResult]

CancelOp(s) ==
    LET ts == IF s.timerId # NoTimer THEN CancelTimer(s.timers, s.timerId)
              ELSE s.timers
    IN  [s EXCEPT !.timers = ts,
                  !.lastInvokeTime = 0,
                  !.lastArgs = NoArgs,
                  !.lastCallTime = NoTime,
                  !.timerId = NoTimer]

\* ------------------------------------------------------ inner functions
\* func.apply(thisArg, args): func returns, or it throws.
FuncBehaviours == {"return", "throw"}

\* a func that calls cancel() of its own debounced function before it
\* returns
ReentrantBehaviours == {"return", "cancel"}

\* a func that calls its own debounced function once, the first time it
\* runs, before it returns; that call passes the bundle ReentrantArgs
NestedBehaviours == {"return", "call"}
ReentrantArgs == 9

RECURSIVE DebouncedOp(_, _, _, _)

FuncBody(s, beh) ==
    IF beh = "cancel" THEN [CancelOp(s) EXCEPT !.re = "cancel"]
    ELSE IF beh = "call"
    THEN [DebouncedOp(s, ReentrantArgs, now, "return") EXCEPT !.re = "call"]
    ELSE s

\* the pending arguments cleared only after func has returned
InvokeFuncClearsLate(s, time, beh, via) ==
    LET args == s.lastArgs
        s1 == [s EXCEPT !.lastInvokeTime = time, !.inv = args, !.via = via]
    IN  IF beh = "throw"
        THEN [s1 EXCEPT !.threw = TRUE]
        ELSE [s1 EXCEPT !.lastArgs = NoArgs,
                        !.result = FuncValue(args), !.ret = FuncValue(args)]

\* the pending arguments never cleared by an invocation
InvokeFuncKeepsArgs(s, time, beh, via) ==
    LET args == s.lastArgs
        s1 == [s EXCEPT !.lastInvokeTime = time, !.inv = args, !.via = via]
    IN  IF beh = "throw"
        THEN [s1 EXCEPT !.threw = TRUE]
        ELSE [s1 EXCEPT !.result = FuncValue(args), !.ret = FuncValue(args)]

InvokeFunc(s, time, beh, via) ==
    LET args == s.lastArgs
        s1 == [s EXCEPT !.lastArgs = NoArgs,
                        !.lastInvokeTime = time,
                        !.inv = args, !.via = via,
                        !.begun = [timerId |-> s.timerId,
                                   lastArgs |-> NoArgs]]
        s2 == FuncBody(s1, beh)
    IN  IF beh = "throw"
        THEN [s1 EXCEPT !.threw = TRUE]
        ELSE [s2 EXCEPT !.result = FuncValue(args), !.ret = FuncValue(args)]

\* the leading edge never invoking
LeadingEdgeSilent(s, time, beh) ==
    LET s1 == [s EXCEPT !.lastInvokeTime = time]
        s2 == StartTimer(s1, cfg.timeToWait, time)
    IN  [s2 EXCEPT !.ret = s2.result]

\* the leading edge invoking whatever the leading option
LeadingEdgeAlways(s, time, beh) ==
    LET s1 == [s EXCEPT !.lastInvokeTime = time]
        s2 == StartTimer(s1, cfg.timeToWait, time)
    IN  InvokeFunc(s2, time, beh, "leading")

\* the leading edge recording the time only of an actual invocation
LeadingEdgeNoReset(s, time, beh) ==
    LET s2 == StartTimer(s, cfg.timeToWait, time)
    IN  IF cfg.leading THEN InvokeFunc(s2, time, beh, "leading")
        ELSE [s2 EXCEPT !.ret = s2.result]

LeadingEdge(s, time, beh) ==
    LET s1 == [s EXCEPT !.lastInvokeTime = time]
        s2 == StartTimer(s1, cfg.timeToWait, time)
    IN  IF cfg.leading THEN InvokeFunc(s2, time, beh, "leading")
        ELSE [s2 EXCEPT !.ret = s2.result]

\* the remaining wait computed without the maxWait ceiling
RemainingWaitNoCeiling(s, time) == cfg.wait - (time - s.lastCallTime)

\* the ceiling measured from the last call instead of the last invocation
RemainingWaitFromCall(s, time) ==
    LET timeSinceLastCall == time - s.lastCallTime
        timeWaiting == cfg.wait - timeSinceLastCall
    IN  IF cfg.maxing
        THEN Min(timeWaiting, cfg.maxWait - timeSinceLastCall)
        ELSE timeWaiting

\* the wake-up started afresh for the whole wait
RemainingWaitFull(s, time) == cfg.wait

RemainingWait(s, time) ==
    LET timeSinceLastCall == time - s.lastCallTime
        timeSinceLastInvoke == time - s.lastInvokeTime
        timeWaiting == cfg.wait - timeSinceLastCall
    IN  IF cfg.maxing
        THEN Min(timeWaiting, cfg.maxWait - timeSinceLastInvoke)
        ELSE timeWaiting

\* shouldInvoke without the test for a clock that went back
ShouldInvokeForward(s, time) ==
    LET timeSinceLastCall == time - s.lastCallTime
        timeSinceLastInvoke == time - s.lastInvokeTime
    IN  \/ s.lastCallTime = NoTime
        \/ timeSinceLastCall >= cfg.timeToWait
        \/ (cfg.maxing /\ timeSinceLastInvoke >= cfg.maxWait)

ShouldInvoke(s, time) ==
    LET timeSinceLastCall == time - s.lastCallTime
        timeSinceLastInvoke == time - s.lastInvokeTime
    IN  \/ s.lastCallTime = NoTime
        \/ timeSinceLastCall >= cfg.timeToWait
        \/ timeSinceLastCall < 0
        \/ (cfg.maxing /\ timeSinceLastInvoke >= cfg.maxWait)

\* the trailing edge invoking whether or not arguments are pending
TrailingEdgeUnguarded(s, time, beh, via) ==
    LET s1 == [s EXCEPT !.timerId = NoTimer]
    IN  IF cfg.trailing
        THEN InvokeFunc(s1, time, beh, via)
        ELSE [s1 EXCEPT !.lastArgs = NoArgs, !.ret = s1.result]

\* the trailing edge giving up the handle only after func has run
TrailingEdgeResetsLate(s, time, beh, via) ==
    IF cfg.trailing /\ s.lastArgs # NoArgs
    THEN [InvokeFunc(s, time, beh, via) EXCEPT !.timerId = NoTimer]
    ELSE [s EXCEPT !.timerId = NoTimer, !.lastArgs = NoArgs,
                   !.ret = s.result]

TrailingEdge(s, time, beh, via) ==
    LET s1 == [s EXCEPT !.timerId = NoTimer]
    IN  IF cfg.trailing /\ s1.lastArgs # NoArgs
        THEN InvokeFunc(s1, time, beh, via)
        ELSE [s1 EXCEPT !.lastArgs = NoArgs, !.ret = s1.result]

\* the wake-up handler going to the trailing edge whenever it runs
TimerExpiredAlwaysTrailing(s, time, beh) ==
    TrailingEdge(s, time, beh, "timer")

\* the wake-up handler, entered with the fired wake-up already consumed
TimerExpired(s, time, beh) ==
    IF ShouldInvoke(s, time)
    THEN TrailingEdge(s, time, beh, "timer")
    ELSE StartTimer(s, RemainingWait(s, time), time)

\* flush() dropping what is pending instead of invoking func with it
FlushOpDrops(s, time, beh) ==
    [s EXCEPT !.timerId = NoTimer, !.lastArgs = NoArgs, !.ret = s.result]

FlushOp(s, time, beh) ==
    IF s.timerId = NoTimer THEN [s EXCEPT !.ret = s.result]
    ELSE TrailingEdge(s, time, beh, "flush")

PendingOp(s) == s.timerId # NoTimer

\* a call returning the result stored before the call ran
DebouncedOpStale(s, args, time, beh) ==
    LET isInvoking == ShouldInvoke(s, time)
        s1 == [s EXCEPT !.lastArgs = args, !.lastCallTime = time]
        r == IF isInvoking /\ s1.timerId = NoTimer
             THEN LeadingEdge(s1, time, beh)
             ELSE IF isInvoking /\ cfg.maxing
             THEN InvokeFunc(StartTimer(s1, cfg.timeToWait, time), time,
                             beh, "maxing")
             ELSE IF s1.timerId = NoTimer
             THEN StartTimer(s1, cfg.timeToWait, time)
             ELSE s1
    IN  [r EXCEPT !.ret = s.result]

\* every call starting the wake-up afresh
DebouncedOpRearms(s, args, time, beh) ==
    LET isInvoking == ShouldInvoke(s, time)
        s1 == [s EXCEPT !.lastArgs = args, !.lastCallTime = time]
    IN  IF isInvoking /\ s1.timerId = NoTimer
        THEN LeadingEdge(s1, time, beh)
        ELSE IF isInvoking /\ cfg.maxing
        THEN InvokeFunc(StartTimer(s1, cfg.timeToWait, time), time, beh,
                        "maxing")
        ELSE LET s2 == StartTimer(s1, cfg.timeToWait, time)
             IN  [s2 EXCEPT !.ret = s2.result]

DebouncedOp(s, args, time, beh) ==
    LET isInvoking == ShouldInvoke(s, time)
        s1 == [s EXCEPT !.lastArgs = args, !.lastCallTime = time]
    IN  IF isInvoking /\ s1.timerId = NoTimer
        THEN LeadingEdge(s1, time, beh)
        ELSE IF isInvoking /\ cfg.maxing
        THEN InvokeFunc(StartTimer(s1, cfg.timeToWait, time), time, beh,
                        "maxing")
        ELSE LET s2 == IF s1.timerId = NoTimer
                       THEN StartTimer(s1, cfg.timeToWait, time)
                       ELSE s1
             IN  [s2 EXCEPT !.ret = s2.result]

\* ---------------------------------------------------------------- Init
NoBurst == [first |-> 0, firstT |-> NoTime, lastT |-> NoTime,
            pend |-> NoTime, invs |-> <<>>]
NoLast == [op |-> "create", ret |-> NoResult, threw |-> FALSE,
           inv |-> NoArgs, via |-> "none", re |-> "none",
           begun |-> NoBegun]

ClosureInit ==
    /\ now = 0
    /\ lastArgs = NoArgs
    /\ result = NoResult
    /\ timerId = NoTimer
    /\ lastCallTime = NoTime
    /\ lastInvokeTime = 0
    /\ timers = {}
    /\ nCalls = 0
    /\ cancelled = FALSE
    /\ burst = NoBurst
    /\ completed = NoResult

InitState ==
    /\ ClosureInit
    /\ bf = NotMade
    /\ em = NotMade
    /\ ps = NotMade
    /\ modal = NotMade
    /\ d2 = NotMade

\* the state after debounce(func, wait, options); the history keeps what
\* it was called with
Create(func, wait, options, hasRAF) ==
    /\ cfg = Debounce(func, wait, options, hasRAF)
    /\ last = [op |-> "create", ret |-> NoResult, threw |-> FALSE,
               inv |-> NoArgs, via |-> "none", re |-> "none",
               begun |-> NoBegun,
               func |-> func, wait |-> wait, options |-> options,
               hasRAF |-> hasRAF]
    /\ InitState

Init ==
    \E func \in FuncInputs, wait \in WaitInputs(MaxWaitArg),
       options \in OptionInputs(MaxMaxWaitArg), hasRAF \in BOOLEAN :
        Create(func, wait, options, hasRAF)

\* -------------------------------------------------------------- actions
\* debounced(...args), with at most maxCalls calls per behaviour; the k-th
\* call passes the argument bundle k
CallN(maxCalls, beh) ==
    /\ Created
    /\ nCalls < maxCalls
    /\ nCalls' = nCalls + 1
    /\ cancelled' = FALSE
    /\ UNCHANGED <<cfg, now>>
    /\ LET s == DebouncedOp(St, nCalls + 1, now, beh)
       IN  /\ Cardinality(s.timers) <= MaxTimers
           /\ Commit(s, "call")

\* the backend runs the wake-up tm
FireN(tm, beh) ==
    /\ tm \in timers
    /\ tm.due <= now
    /\ UNCHANGED <<cfg, now, nCalls, cancelled>>
    /\ Commit(TimerExpired([St EXCEPT !.timers = @ \ {tm}], now, beh),
              "timer")

TickN(maxTime) ==
    /\ now < maxTime
    /\ now' = now + 1
    /\ last' = [NoLast EXCEPT !.op = "tick"]
    /\ UNCHANGED <<cfg, lastArgs, result, timerId, lastCallTime,
                   lastInvokeTime, timers, nCalls, cancelled, completed,
                   bf, em, ps, modal, d2>>

Call ==
    /\ \E beh \in FuncBehaviours : CallN(MaxCalls, beh)
    /\ UNCHANGED burst

\* a wake-up that is due runs, possibly late
Fire ==
    /\ \E tm \in timers, beh \in FuncBehaviours : FireN(tm, beh)
    /\ UNCHANGED burst

Cancel ==
    /\ Created
    /\ cancelled' = TRUE
    /\ UNCHANGED <<cfg, now, nCalls, burst>>
    /\ Commit(CancelOp(St), "cancel")

FlushN(beh) ==
    /\ Created
    /\ UNCHANGED <<cfg, now, nCalls, cancelled, burst>>
    /\ Commit(FlushOp(St, now, beh), "flush")

Flush == \E beh \in FuncBehaviours : FlushN(beh)

Tick ==
    /\ TickN(MaxTime)
    /\ UNCHANGED burst

Next == Call \/ Fire \/ Cancel \/ Flush \/ Tick

Spec == Init /\ [][Next]_vars

\* ------------------------------------ func calling cancel() while it runs
ReentrantCall ==
    /\ \E beh \in ReentrantBehaviours : CallN(MaxCalls, beh)
    /\ UNCHANGED burst

ReentrantFire ==
    /\ \E tm \in timers, beh \in ReentrantBehaviours : FireN(tm, beh)
    /\ UNCHANGED burst

ReentrantFlush == \E beh \in ReentrantBehaviours : FlushN(beh)

NextReentrant ==
    ReentrantCall \/ ReentrantFire \/ Cancel \/ ReentrantFlush \/ Tick

SpecReentrant == Init /\ [][NextReentrant]_vars

\* ------------------------------------------------ a clock that goes back
\* Date.now() is set back to an earlier value.  The backend counts the delay
\* of a wake-up on its own clock, so what is left of each delay stays the
\* same; a wake-up whose delay is over is due whatever Date.now() says.
ClockBack ==
    /\ \E t \in 0..(now - 1) :
          /\ now' = t
          /\ timers' = {[tm EXCEPT !.due = Max(@ - (now - t), 0)] :
                           tm \in timers}
    /\ last' = [NoLast EXCEPT !.op = "clock"]
    /\ UNCHANGED <<cfg, lastArgs, result, timerId, lastCallTime,
                   lastInvokeTime, nCalls, cancelled, burst, completed,
                   bf, em, ps, modal, d2>>

\* calls and wake-ups with a func that returns
ClockCall ==
    /\ CallN(MaxCalls, "return")
    /\ UNCHANGED burst

ClockFire ==
    /\ \E tm \in timers : FireN(tm, "return")
    /\ UNCHANGED burst

NextClock == ClockCall \/ ClockFire \/ Tick \/ ClockBack

SpecClock == Init /\ [][NextClock]_vars

\* ------------------------- func calling its debounced function while it runs
\* func makes that call only as long as it has never returned before
FuncNow == IF completed = NoResult THEN NestedBehaviours ELSE {"return"}

NestedCall ==
    /\ \E beh \in FuncNow : CallN(MaxCalls, beh)
    /\ UNCHANGED burst

NestedFire ==
    /\ \E tm \in timers, beh \in FuncNow : FireN(tm, beh)
    /\ UNCHANGED burst

NestedFlush == \E beh \in FuncNow : FlushN(beh)

NextNested == NestedCall \/ NestedFire \/ Cancel \/ NestedFlush \/ Tick

SpecNested == Init /\ [][NextNested]_vars

\* ------------------------------------------- wake-ups that run on time
\* A burst is a run of calls each less than `wait` after the one before;
\* the history keeps the current burst: its first call, the time of its
\* first and of its latest call, the invocations of func since it began,
\* and the time of the earliest call made since func was invoked last.
NoneDue == \A tm \in timers : tm.due > now

OpensBurst == burst.lastT = NoTime \/ now - burst.lastT >= cfg.timeToWait

Record(b) ==
    IF last'.via = "none" THEN b
    ELSE [b EXCEPT !.pend = NoTime,
                   !.invs = Append(@, [t |-> now, a |-> last'.inv,
                                       via |-> last'.via,
                                       quiet |-> now - b.lastT])]

\* a call, made only when no wake-up is due
BurstCallN(maxCalls, beh) ==
    /\ NoneDue
    /\ CallN(maxCalls, beh)
    /\ LET pend == IF burst.pend = NoTime THEN now ELSE burst.pend
       IN  burst' = Record(IF OpensBurst
                           THEN [first |-> nCalls + 1, firstT |-> now,
                                 lastT |-> now, pend |-> pend, invs |-> <<>>]
                           ELSE [burst EXCEPT !.lastT = now, !.pend = pend])

BurstCall == \E beh \in FuncBehaviours : BurstCallN(BurstMaxCalls, beh)

\* a wake-up runs at the time it is due
BurstFire ==
    \E tm \in timers, beh \in FuncBehaviours :
        /\ FireN(tm, beh)
        /\ burst' = Record(burst)

\* time passes only when no wake-up is due
BurstTickN(maxTime) ==
    /\ NoneDue
    /\ TickN(maxTime)
    /\ UNCHANGED burst

BurstTick == BurstTickN(BurstMaxTime)

InitOnTime ==
    \E wait \in WaitInputs(BurstMaxWaitArg),
       options \in OptionInputs(BurstMaxMaxWaitArg), hasRAF \in BOOLEAN :
        Create("function", wait, options, hasRAF)

NextOnTime == BurstCall \/ BurstFire \/ BurstTick

SpecOnTime == InitOnTime /\ [][NextOnTime]_vars

\* ------------------------------------------------ the maxWait scenario
\* debounce(func, 100, {maxWait: 250}), called every 40 ms from t = 0
\* through t = 400, wake-ups on time
InitScenario ==
    Create("function", 100, [isObject |-> TRUE, leading |-> NoOpt,
                             trailing |-> NoOpt, maxWait |-> 250], FALSE)

CallIsDue == now % 40 = 0 /\ now <= 400 /\ nCalls = now \div 40

ScenarioCall ==
    /\ CallIsDue
    /\ \E beh \in FuncBehaviours : BurstCallN(11, beh)

ScenarioTick ==
    /\ ~CallIsDue
    /\ BurstTickN(ScenarioEnd)

NextScenario == ScenarioCall \/ BurstFire \/ ScenarioTick

SpecScenario == InitScenario /\ [][NextScenario]_vars

TypeOK ==
    /\ lastArgs \in 0..nCalls
    /\ timerId \in {NoTimer} \cup TimerIds(timers)

\* ------------------------------------------------------ burst contracts
\* the current burst has been quiet for `wait` and its wake-ups have run
BurstOver ==
    /\ burst.lastT # NoTime
    /\ NoneDue
    /\ now - burst.lastT >= cfg.timeToWait

BurstCalls == IF burst.first = 0 THEN 0 ELSE nCalls - burst.first + 1

TrailingOnly ==
    cfg.wait > 0 /\ ~cfg.leading /\ cfg.trailing /\ ~cfg.maxing

\* C1: with wait = D > 0, leading=false, trailing=true and no maxWait, a
\* burst is invoked for at most once, by a wake-up, with the arguments of
\* its last call and not earlier than D after that call (on time: exactly D
\* after it); once the burst is over it has been invoked for exactly once.
C1_TrailingOnce ==
    TrailingOnly =>
        /\ Len(burst.invs) <= 1
        /\ \A k \in 1..Len(burst.invs) :
              /\ burst.invs[k].a = nCalls
              /\ burst.invs[k].via = "timer"
              /\ burst.invs[k].quiet >= cfg.wait
              /\ burst.invs[k].t = burst.lastT + cfg.wait
        /\ BurstOver => Len(burst.invs) = 1

\* a second burst, of two calls, is over and was invoked for
C1_Witness ==
    /\ TrailingOnly
    /\ burst.first = 2
    /\ BurstCalls = 2
    /\ BurstOver
    /\ Len(burst.invs) = 1
    /\ burst.invs[1].a = 3

LeadingOnly == cfg.leading /\ ~cfg.trailing

\* the burst was invoked for once, inside its first call, with that call's
\* arguments
OneLeadingInvocation ==
    /\ Len(burst.invs) = 1
    /\ burst.invs[1].a = burst.first
    /\ burst.invs[1].via = "leading"
    /\ burst.invs[1].t = burst.firstT

\* C2 as stated: with leading=true, trailing=false every burst is invoked
\* for exactly once, inside its first call with that call's arguments.
C2_AsStated == LeadingOnly /\ burst.first # 0 => OneLeadingInvocation

\* C2: the same, for a debounced function created without maxWait.
C2_LeadingOnce ==
    LeadingOnly /\ ~cfg.maxing /\ burst.first # 0 => OneLeadingInvocation

\* a burst of two calls is over, after an earlier burst
C2_Witness ==
    /\ LeadingOnly /\ ~cfg.maxing
    /\ burst.first = 2
    /\ BurstCalls = 2
    /\ BurstOver
    /\ OneLeadingInvocation

BothEdges == cfg.leading /\ cfg.trailing /\ ~cfg.maxing

\* C3: with leading=true, trailing=true and no maxWait a burst is invoked
\* for first inside its first call with that call's arguments, and a burst
\* of two or more calls a second and last time by the wake-up that finds it
\* quiet for `wait`, with the last call's arguments.
C3_LeadingAndTrailing ==
    BothEdges /\ burst.first # 0 =>
        /\ Len(burst.invs) \in 1..2
        /\ burst.invs[1].a = burst.first
        /\ burst.invs[1].via = "leading"
        /\ burst.invs[1].t = burst.firstT
        /\ Len(burst.invs) = 2 =>
              /\ BurstCalls >= 2
              /\ burst.invs[2].a = nCalls
              /\ burst.invs[2].via = "timer"
              /\ burst.invs[2].quiet >= cfg.timeToWait
        /\ BurstOver /\ BurstCalls >= 2 => Len(burst.invs) = 2

C3_Witness ==
    /\ BothEdges
    /\ BurstCalls = 3
    /\ BurstOver
    /\ Len(burst.invs) = 2
    /\ burst.invs[1].a = 1
    /\ burst.invs[2].a = 3

\* calls keep arriving: the next call can still come less than `wait` after
\* the latest one
BurstAlive == burst.lastT # NoTime /\ now - burst.lastT < cfg.timeToWait

\* when func was invoked last in this burst, or when the burst began
LastInvocationOrStart ==
    IF burst.invs = <<>> THEN burst.firstT
    ELSE burst.invs[Len(burst.invs)].t

\* the invocations made while calls kept arriving came within m of the one
\* before, the first one within m of the first call
InvocationGapsWithin(m) ==
    /\ \A k \in 1..Len(burst.invs) - 1 :
          burst.invs[k + 1].quiet < cfg.timeToWait =>
              burst.invs[k + 1].t - burst.invs[k].t <= m
    /\ burst.invs # <<>> => burst.invs[1].t - burst.firstT <= m

\* C4 as stated: with maxWait = M and an edge enabled, while calls keep
\* arriving func is invoked within M of the previous invocation, and for
\* the first time within M of the first call of the burst.
C4_AsStated ==
    cfg.maxing /\ (cfg.leading \/ cfg.trailing) =>
        /\ InvocationGapsWithin(cfg.maxWait)
        /\ BurstAlive => now - LastInvocationOrStart <= cfg.maxWait

\* the same with trailing=true only, which four calls refute
C4_AsStatedTrailing ==
    cfg.maxing /\ cfg.trailing =>
        /\ InvocationGapsWithin(cfg.maxWait)
        /\ BurstAlive => now - LastInvocationOrStart <= cfg.maxWait

\* C4: with maxWait = M, a burst is invoked for first within M of its first
\* call, and with trailing=true no call waits longer than M for the next
\* invocation: func is invoked within M of the earliest call made since
\* the invocation before.
C4_Ceiling ==
    cfg.maxing /\ (cfg.leading \/ cfg.trailing) =>
        /\ burst.invs # <<>> => burst.invs[1].t - burst.firstT <= cfg.maxWait
        /\ burst.invs = <<>> /\ burst.first # 0 =>
              now - burst.firstT <= cfg.maxWait
        /\ cfg.trailing /\ burst.pend # NoTime =>
              now - burst.pend <= cfg.maxWait

\* the ceiling forced an invocation while calls kept arriving
C4_Witness ==
    /\ cfg.maxing /\ cfg.trailing /\ cfg.maxWait > cfg.wait
    /\ Len(burst.invs) = 1
    /\ burst.invs[1].via = "timer"
    /\ burst.invs[1].quiet < cfg.timeToWait
    /\ burst.invs[1].t - burst.firstT = cfg.maxWait

\* C5: in the scenario func is invoked for first at t = 250 with the
\* arguments of the call at t = 240 (the 7th), a second and last time after
\* the last call at t = 400 with that call's arguments (the 11th), and the
\* two invocations are no more than 250 ms apart.
C5_Scenario ==
    /\ Len(burst.invs) <= 2
    /\ now < 250 => burst.invs = <<>>
    /\ now > 250 \/ (now = 250 /\ NoneDue) => burst.invs # <<>>
    /\ Len(burst.invs) >= 1 =>
          /\ burst.invs[1].t = 250
          /\ burst.invs[1].a = 7
    /\ Len(burst.invs) = 2 =>
          /\ burst.invs[2].t > 400
          /\ burst.invs[2].a = 11
          /\ burst.invs[2].t - burst.invs[1].t <= 250
    /\ now > 500 => Len(burst.invs) = 2

C5_Witness ==
    /\ cfg.wait = 100 /\ cfg.maxWait = 250
    /\ nCalls = 11
    /\ Len(burst.invs) = 2
    /\ burst.invs[2].t = 500
    /\ timers = {}
    /\ timerId = NoTimer

\* ------------------------------------------------- cancel, flush, pending
\* C6: cancel() invokes nothing and leaves no wake-up held, no pending
\* arguments and no lastCallTime; from then until the next call no step (no
\* wake-up, stale or not, and no flush) invokes func.
C6_CancelStopsInvocations ==
    [][ /\ last'.op = "cancel" =>
              /\ last'.via = "none"
              /\ timerId' = NoTimer
              /\ lastArgs' = NoArgs
              /\ lastCallTime' = NoTime
        /\ cancelled /\ cancelled' => last'.via = "none" ]_vars

\* a wake-up that cancel() did not reach ran after the cancel
C6_Witness ==
    /\ cancelled
    /\ last.op = "timer"
    /\ nCalls = 2
    /\ result = NoResult

\* the machine is Idle: no wake-up is held or outstanding in the timer
\* backend, and lastCallTime is absent
Idle == timerId = NoTimer /\ timers = {} /\ lastCallTime = NoTime

\* C7 as stated: flush() while Idle invokes nothing and returns the last
\* result, changing nothing; flush() while Pending runs the trailing edge at
\* once, however little of the delay has passed: with trailing=true and
\* arguments pending it invokes func with them and returns what func
\* returned, otherwise it returns the last result; afterwards the machine
\* is Idle.
C7_AsStated ==
    [][ last'.op = "flush" =>
          IF timerId = NoTimer
          THEN /\ last'.via = "none"
               /\ ~last'.threw
               /\ last'.ret = result
               /\ UNCHANGED <<lastArgs, result, timerId, lastCallTime,
                              lastInvokeTime, timers>>
          ELSE /\ lastArgs' = NoArgs
               /\ IF cfg.trailing /\ lastArgs # NoArgs
                  THEN /\ last'.inv = lastArgs
                       /\ last'.via = "flush"
                       /\ lastInvokeTime' = now
                       /\ ~last'.threw =>
                             /\ last'.ret = FuncValue(lastArgs)
                             /\ result' = FuncValue(lastArgs)
                  ELSE /\ last'.via = "none"
                       /\ ~last'.threw
                       /\ last'.ret = result
                       /\ result' = result
               /\ Idle' ]_vars

\* C8 as stated: pending() is true exactly when a wake-up of the debounced
\* function is outstanding in the timer backend.
C8_AsStated == PendingOp(St) <=> timers # {}

\* C9 as stated: at most one wake-up is outstanding at any time.
C9_AsStated == Cardinality(timers) <= 1

\* C10 as stated: when func throws on the leading edge, in a trailing
\* wake-up or in flush(), no wake-up is held and no arguments are pending.
C10_AsStated ==
    last.threw /\ last.via \in {"leading", "timer", "flush"} =>
        /\ ~PendingOp(St)
        /\ lastArgs = NoArgs

\* the wake-up the closure holds, as the backend has it
HeldWakeUp == {tm \in timers : tm.id = timerId}

\* C10: when func throws, the exception leaves the operation that invoked
\* it with the pending arguments cleared; in a trailing wake-up and in
\* flush() no wake-up is held then (pending() is false), while on the
\* leading edge the trailing wake-up just scheduled is held and outstanding,
\* so that the burst still ends.
C10_Throw ==
    last.threw =>
        /\ last.via # "none"
        /\ lastArgs = NoArgs
        /\ lastInvokeTime = now
        /\ last.via \in {"timer", "flush"} => ~PendingOp(St)
        /\ last.via = "leading" =>
              /\ PendingOp(St)
              /\ \E tm \in HeldWakeUp :
                    tm.due = IF cfg.useRAF THEN now ELSE now + cfg.timeToWait

\* func threw in flush() after an earlier invocation had returned
C10_Witness ==
    /\ last.threw
    /\ last.op = "flush"
    /\ last.inv = 2
    /\ result = 1

\* C11: debounce() fails with a TypeError at creation whenever func is not
\* a function, for every wait and options: no debounced function is
\* returned, so nothing is ever called, and no wake-up is scheduled.
C11_NotAFunction ==
    cfg.func # "function" =>
        /\ cfg.error = "TypeError"
        /\ ~Created
        /\ timers = {}
        /\ timerId = NoTimer
        /\ nCalls = 0
        /\ last.op \in {"create", "tick"}
        /\ last.via = "none"

\* the creation that failed was given an explicit wait and a maxWait option
C11_Witness ==
    /\ last.op = "create"
    /\ last.func = "undefined"
    /\ last.wait = 1
    /\ last.options.isObject
    /\ last.options.maxWait = 2
    /\ ~Created

\* the claim as stated: creation with a maxWait option below wait fails
C12_AsStated ==
    /\ last.op = "create"
    /\ last.func = "function"
    /\ last.options.isObject
    /\ last.options.maxWait # NoOpt
    /\ last.wait # NoWait
    /\ last.options.maxWait < last.wait
    => ~Created

\* C12: creating with a maxWait option below wait does not fail: the
\* debounced function is returned and its effective maxWait is raised to
\* wait.
C12_CeilingRaised ==
    /\ last.op = "create"
    /\ last.func = "function"
    /\ last.options.isObject
    /\ last.options.maxWait # NoOpt
    /\ last.wait # NoWait
    /\ last.options.maxWait < last.wait
    => /\ Created
       /\ cfg.error = "none"
       /\ cfg.maxing
       /\ cfg.maxWait = last.wait

\* created with wait = 1 and maxWait = 0
C12_Witness ==
    /\ last.op = "create"
    /\ last.func = "function"
    /\ last.wait = 1
    /\ last.options.isObject
    /\ last.options.maxWait = 0
    /\ Created
    /\ cfg.maxWait = 1

\* the claim as stated: cancel() leaves lastInvokeTime and the last result
\* as they were
C13_AsStated ==
    [][last'.op = "cancel" =>
          /\ lastInvokeTime' = lastInvokeTime
          /\ result' = result]_vars

\* C13: cancel() leaves the last result unchanged and resets lastInvokeTime
\* to 0, together with the pending arguments, lastCallTime and the held
\* wake-up.
C13_CancelKeepsResult ==
    [][last'.op = "cancel" =>
          /\ result' = result
          /\ lastInvokeTime' = 0
          /\ lastArgs' = NoArgs
          /\ lastCallTime' = NoTime
          /\ timerId' = NoTimer]_vars

\* cancel() ran after an invocation at a later time had returned a result
C13_Witness ==
    /\ last.op = "cancel"
    /\ result = 2
    /\ lastInvokeTime = 0
    /\ now > 0
    /\ cfg.leading
    /\ ~cfg.trailing

\* C14: cancel() is idempotent and never fails, and when func calls
\* cancel() while it is being invoked (on the leading edge, in the
\* tight-loop branch, on the trailing edge or in flush()), then once that
\* invocation has returned no wake-up is held or outstanding and no
\* arguments are pending.
C14_AsStated ==
    /\ CancelOp(CancelOp(St)) = CancelOp(St)
    /\ last.re = "cancel" =>
          /\ ~last.threw
          /\ timerId = NoTimer
          /\ lastArgs = NoArgs
          /\ timers = {}

\* C15: when a maxWait option was supplied the effective ceiling is at
\* least wait in every state of the lifetime; when none was supplied no
\* ceiling applies: shouldInvoke and remainingWait decide by the time
\* since the last call alone, whatever the time since the last invocation.
C15_Ceiling ==
    Created =>
        /\ last.op = "create" =>
              (cfg.maxing <=>
                  last.options.isObject /\ last.options.maxWait # NoOpt)
        /\ cfg.maxing =>
              /\ cfg.maxWait >= cfg.timeToWait
              /\ cfg.maxWait >= cfg.wait
        /\ ~cfg.maxing =>
              /\ cfg.maxWait = NoWait
              /\ \A t \in 0..MaxTime, li \in 0..MaxTime :
                    LET s == [St EXCEPT !.lastInvokeTime = li]
                    IN  /\ ShouldInvoke(s, t) = ShouldInvoke(St, t)
                        /\ RemainingWait(s, t) = cfg.wait - (t - lastCallTime)

\* a ceiling that was raised to wait made a call invoke func
C15_Witness ==
    /\ cfg.maxing
    /\ cfg.wait = 1
    /\ cfg.maxWait = 1
    /\ last.op = "call"
    /\ last.via = "maxing"

\* C16: with leading=true and trailing=true a wake-up invokes func only in
\* a burst of two or more calls; a burst of a single call is invoked for
\* exactly once, inside that call, and its wake-up invokes nothing.
C16_SingleCall ==
    cfg.leading /\ cfg.trailing /\ burst.first # 0 =>
        /\ BurstCalls = 1 => OneLeadingInvocation
        /\ \A k \in 1..Len(burst.invs) :
              burst.invs[k].via = "timer" => BurstCalls >= 2
        /\ last.op = "timer" /\ BurstCalls = 1 => last.via = "none"

\* the wake-up of a burst of one call has run, after an earlier burst
C16_Witness ==
    /\ cfg.leading
    /\ cfg.trailing
    /\ cfg.wait > 0
    /\ nCalls = 2
    /\ BurstCalls = 1
    /\ BurstOver
    /\ last.op = "timer"
    /\ last.via = "none"
    /\ timers = {}
    /\ OneLeadingInvocation

\* C17: a call that returns, returns what the latest invocation of func
\* that has returned has returned, the one made inside this very call
\* included, and undefined if there never was one; it never returns the
\* result of an earlier invocation once a later one has returned.
C17_ReturnsLatest ==
    last.op = "call" /\ ~last.threw =>
        /\ last.ret = completed
        /\ last.ret = result
        /\ last.via # "none" => last.ret = FuncValue(last.inv)

\* the second call invoked nothing and returned the result of the
\* invocation made for the first
C17_Witness ==
    /\ last.op = "call"
    /\ nCalls = 2
    /\ last.via = "none"
    /\ last.ret = 1
    /\ completed = 1

\* wait = 0 given explicitly, leading=false, no maxWait
WaitZero == Created /\ cfg.wait = 0 /\ ~cfg.leading /\ ~cfg.maxing

\* C18: with wait = 0, leading=false and no maxWait a call never invokes
\* func itself: it leaves a fixed-delay wake-up of delay 0 held and its
\* arguments pending; func is invoked later, outside any call, with the
\* arguments of the latest call made until then, and that invocation clears
\* the pending arguments, so the calls made before it are invoked for once.
C18_Deferred ==
    [][WaitZero =>
          /\ last'.op = "call" =>
                /\ last'.via = "none"
                /\ lastArgs' = nCalls'
                /\ \E tm \in timers' :
                      /\ tm.id = timerId'
                      /\ tm.kind = "timeout"
                      /\ tm.due <= now'
          /\ last'.via # "none" =>
                /\ last'.op \in {"timer", "flush"}
                /\ lastArgs # NoArgs
                /\ last'.inv = lastArgs
                /\ last'.inv = nCalls
                /\ lastArgs' = NoArgs ]_vars

\* two calls at time 0, then the wake-up invoked func for the second
C18_Witness ==
    /\ WaitZero
    /\ now = 0
    /\ nCalls = 2
    /\ last.op = "timer"
    /\ last.inv = 2
    /\ completed = 2
    /\ timers = {}

\* the backend debounce() must choose for what it was called with
ChosenBackend ==
    IF last.wait = NoWait /\ last.hasRAF THEN "frame" ELSE "timeout"

\* the backend in use
Backend == IF cfg.useRAF THEN "frame" ELSE "timeout"

\* C19: the timer backend is chosen at creation and never changes: the
\* fixed-delay backend whenever a wait is given, 0 included, the
\* frame-aligned one when no wait is given and requestAnimationFrame
\* exists, and otherwise the fixed-delay backend with delay 0; every
\* wake-up is scheduled in that backend, and cancelling removes the held
\* wake-up from it.
C19_Backend ==
    /\ [](Created /\ last.op = "create" =>
             /\ Backend = ChosenBackend
             /\ last.wait = NoWait => cfg.timeToWait = 0
             /\ last.wait # NoWait => cfg.timeToWait = last.wait)
    /\ [][ /\ cfg' = cfg
           /\ \A tm \in timers' : tm.kind = Backend
           /\ \A tm \in timers' \ timers :
                 /\ tm.id = timerId'
                 /\ tm.due = IF Backend = "frame" THEN now
                             ELSE now + Max(IF last'.op = "call"
                                            THEN cfg.timeToWait
                                            ELSE RemainingWait(St, now), 0)
           /\ last'.op = "cancel" /\ timerId # NoTimer =>
                 /\ timerId \notin TimerIds(timers')
                 /\ Cardinality(timers') = Cardinality(timers) - 1 ]_vars

\* without a wait and with requestAnimationFrame, cancel() removed the
\* frame callback a call had requested
C19_Witness ==
    /\ cfg.useRAF
    /\ last.op = "cancel"
    /\ nCalls = 1
    /\ completed = NoResult
    /\ timers = {}

\* no wait given, requestAnimationFrame exists, leading=false, no maxWait
FrameOnly == Created /\ cfg.useRAF /\ ~cfg.leading /\ ~cfg.maxing

\* C20 as stated: with no wait, requestAnimationFrame available,
\* leading=false and no maxWait a call never invokes func itself: it leaves
\* a frame callback requested and its arguments pending. The frame callback
\* that finds arguments pending invokes func once, with the arguments of
\* the latest call, and leaves the machine Idle.
C20_AsStated ==
    [][FrameOnly =>
          /\ last'.op = "call" =>
                /\ last'.via = "none"
                /\ lastArgs' = nCalls'
                /\ \E tm \in timers' :
                      /\ tm.id = timerId'
                      /\ tm.kind = "frame"
          /\ last'.via # "none" =>
                /\ last'.op \in {"timer", "flush"}
                /\ last'.inv = lastArgs
                /\ last'.inv = nCalls
          /\ last'.op = "timer" =>
                /\ cfg.trailing /\ lastArgs # NoArgs => last'.via = "timer"
                /\ lastArgs' = NoArgs
                /\ Idle' ]_vars

\* =================================================== before(n, func), once
\* The debounced function is not made in the specifications that follow.
DebounceNotMade ==
    /\ cfg = NotCreated("undefined")
    /\ last = NoLast
    /\ ClosureInit
    /\ d2 = NotMade

NoBeforeLast == [k |-> 0, ret |-> NoResult, threw |-> FALSE,
                 invoked |-> FALSE, nested |-> FALSE]

\* before(n, func): the closure (n, func, result), the invocations of func
\* that are running (a call made from inside func nests), and the history:
\* how often the function was called and func invoked, what the latest
\* invocation that returned has returned, and the call that returned last
Before(n, func) ==
    IF func # "function"
    THEN [made |-> "before", error |-> "TypeError", typeOfFunc |-> func]
    ELSE [made |-> "before", error |-> "none", n0 |-> n,
          n |-> n, func |-> TRUE, result |-> NoResult,
          stack |-> <<>>,
          calls |-> 0, invoked |-> 0, done |-> NoResult,
          last |-> NoBeforeLast]

\* once() allowing func twice
OnceTwice(func) ==
    LET b == Before(3, func)
    IN  [b EXCEPT !.made = "once"]

Once(func) ==
    LET b == Before(2, func)
    IN  [b EXCEPT !.made = "once"]

\* beforeInternal counting the call after the test
BeforeInternalPostDecrement(b, args) ==
    LET n1 == b.n - 1
        b1 == [b EXCEPT !.n = n1, !.calls = @ + 1]
    IN  IF b.n > 0
        THEN [b1 EXCEPT !.stack = Append(@, [k |-> b1.calls, args |-> args]),
                        !.invoked = @ + 1]
        ELSE [b1 EXCEPT !.func = IF n1 <= 1 THEN FALSE ELSE @,
                        !.last = [k |-> b1.calls, ret |-> b.result,
                                  threw |-> FALSE, invoked |-> FALSE,
                                  nested |-> b.stack # <<>>]]

\* beforeInternal(...args) up to where func starts running or, when func is
\* not invoked, to its return
BeforeInternal(b, args) ==
    LET n1 == b.n - 1
        b1 == [b EXCEPT !.n = n1, !.calls = @ + 1]
    IN  IF n1 > 0
        THEN [b1 EXCEPT !.stack = Append(@, [k |-> b1.calls, args |-> args]),
                        !.invoked = @ + 1]
        ELSE [b1 EXCEPT !.func = IF n1 <= 1 THEN FALSE ELSE @,
                        !.last = [k |-> b1.calls, ret |-> b.result,
                                  threw |-> FALSE, invoked |-> FALSE,
                                  nested |-> b.stack # <<>>]]

\* the innermost running func returns or throws, and beforeInternal with it
BeforeInternalEnds(b, beh) ==
    LET top == b.stack[Len(b.stack)]
        b1 == [b EXCEPT !.stack = SubSeq(@, 1, Len(@) - 1)]
    IN  IF beh = "throw"
        THEN [b1 EXCEPT !.last = [k |-> top.k, ret |-> NoResult,
                                  threw |-> TRUE, invoked |-> TRUE,
                                  nested |-> b1.stack # <<>>]]
        ELSE [b1 EXCEPT !.result = FuncValue(top.args),
                        !.done = FuncValue(top.args),
                        !.func = IF b.n <= 1 THEN FALSE ELSE @,
                        !.last = [k |-> top.k, ret |-> FuncValue(top.args),
                                  threw |-> FALSE, invoked |-> TRUE,
                                  nested |-> b1.stack # <<>>]]

InitBefore ==
    /\ DebounceNotMade
    /\ \/ \E n \in 0..MaxBeforeN, func \in FuncInputs : bf = Before(n, func)
       \/ \E func \in FuncInputs : bf = Once(func)
    /\ em = NotMade
    /\ ps = NotMade
    /\ modal = NotMade

\* the function is called, from outside or from inside a running func; the
\* k-th call passes the argument bundle k
BeforeCall ==
    /\ bf.error = "none"
    /\ bf.calls < MaxBeforeCalls
    /\ bf' = BeforeInternal(bf, bf.calls + 1)
    /\ UNCHANGED <<debounceVars, em, ps, modal>>

BeforeReturn ==
    /\ bf.error = "none"
    /\ bf.stack # <<>>
    /\ \E beh \in FuncBehaviours : bf' = BeforeInternalEnds(bf, beh)
    /\ UNCHANGED <<debounceVars, em, ps, modal>>

NextBefore == BeforeCall \/ BeforeReturn

SpecBefore == InitBefore /\ [][NextBefore]_vars

\* C21: func is invoked only by calls made while the function made by
\* before(n, func) has been called fewer than n times before (calls from
\* inside func included): by each of the first n-1 calls, so at most n-1
\* times and never for n <= 1; a call from the n-th on invokes nothing and
\* returns what the latest invocation of func that returned has returned.
C21_Before ==
    bf.error = "none" =>
        /\ bf.invoked = Min(bf.calls, Max(bf.n0 - 1, 0))
        /\ bf.invoked <= Max(bf.n0 - 1, 0)
        /\ bf.n0 <= 1 => bf.invoked = 0
        /\ \A i \in DOMAIN bf.stack : bf.stack[i].k < bf.n0
        /\ bf.last.invoked => bf.last.k < bf.n0
        /\ bf.last.k # 0 /\ bf.last.k >= bf.n0 =>
              /\ ~bf.last.invoked
              /\ ~bf.last.threw
              /\ bf.last.ret = bf.done
              /\ bf.last.ret = bf.result

\* before(3, func): the third call, made from inside the second invocation
\* while the first is running too, invoked nothing
C21_Witness ==
    /\ bf.error = "none"
    /\ bf.made = "before"
    /\ bf.n0 = 3
    /\ Len(bf.stack) = 2
    /\ bf.last.k = 3
    /\ bf.last.nested
    /\ bf.invoked = 2

\* C22: func given to once(func) is invoked exactly once, by the first call
\* and with its arguments; no later call invokes func, and a later call made
\* after that invocation has returned returns its value.
C22_Once ==
    bf.error = "none" /\ bf.made = "once" =>
        /\ bf.invoked = IF bf.calls = 0 THEN 0 ELSE 1
        /\ \A i \in DOMAIN bf.stack :
              bf.stack[i].k = 1 /\ bf.stack[i].args = 1
        /\ bf.last.invoked => bf.last.k = 1
        /\ bf.last.k > 1 =>
              /\ ~bf.last.invoked
              /\ ~bf.last.threw
              /\ bf.done # NoResult /\ ~bf.last.nested =>
                    bf.last.ret = FuncValue(1)

\* the third call returned what the first call's invocation had returned
C22_Witness ==
    /\ bf.error = "none"
    /\ bf.made = "once"
    /\ bf.calls = 3
    /\ bf.last.k = 3
    /\ ~bf.last.nested
    /\ bf.invoked = 1
    /\ bf.last.ret = 1

\* ========================================================= EventEmitter
\* registry[name] is the array of the listeners of `name` (empty where the
\* source has no array yet: emit and removeListener treat both alike).  An
\* element is the function given to on(), or the doOnce closure that once()
\* made, which is a function of its own for every registration.
Names == {"a", "b"}
\* the functions given as listeners
Fns == {"f", "g"}

Identity(entry) ==
    IF entry.once THEN <<"doOnce", entry.reg>> ELSE <<"listener", entry.fn>>

NoEmitLast == [op |-> "none", name |-> "a", snapshot |-> <<>>,
               called |-> <<>>, ret |-> FALSE, threw |-> FALSE]

\* new EventEmitter(), with the history: how many registrations and emits
\* were made, which registrations were made by once(), how often the
\* listener of each registration has started and finished, and the emit
\* that ended last
NewEmitter ==
    [made |-> "emitter", registry |-> [n \in Names |-> <<>>],
     stack |-> <<>>, regs |-> 0, emits |-> 0, byOnce |-> <<>>,
     runs |-> <<>>, finished |-> <<>>, last |-> NoEmitLast]

\* on(name, listener); once(name, listener) pushes its doOnce the same way
EmOnOp(e, name, fn, once) ==
    [e EXCEPT !.regs = @ + 1,
              !.byOnce = Append(@, once),
              !.runs = Append(@, 0),
              !.finished = Append(@, 0),
              !.registry[name] =
                  Append(@, [reg |-> e.regs + 1, fn |-> fn, once |-> once])]

\* listeners.splice(i, 1) for the first i with listeners[i] === listener
RECURSIVE SpliceFirst(_, _)
SpliceFirst(listeners, ident) ==
    IF listeners = <<>> THEN <<>>
    ELSE IF Identity(Head(listeners)) = ident THEN Tail(listeners)
    ELSE <<Head(listeners)>> \o SpliceFirst(Tail(listeners), ident)

\* removeListener taking out every element that is the listener
RemoveListenerOpAll(e, name, ident) ==
    [e EXCEPT !.registry[name] =
                  SelectSeq(@, LAMBDA entry : Identity(entry) # ident)]

RemoveListenerOp(e, name, ident) ==
    [e EXCEPT !.registry[name] = SpliceFirst(@, ident)]

Regs(listeners) == [i \in DOMAIN listeners |-> listeners[i].reg]

\* emit(name) up to the start of listeners.forEach
EmitOp(e, name) ==
    [e EXCEPT !.emits = @ + 1,
              !.stack = Append(@, [name |-> name, idx |-> 1,
                                   len |-> Len(e.registry[name]),
                                   count |-> 0, running |-> FALSE,
                                   cur |-> 0,
                                   snapshot |-> Regs(e.registry[name]),
                                   called |-> <<>>])]

Top(e) == e.stack[Len(e.stack)]
Pop(e) == [e EXCEPT !.stack = SubSeq(@, 1, Len(@) - 1)]

\* one step of forEach in the innermost emit: it visits the indices below
\* the length the array had when forEach began, skips an index the array
\* no longer has, and calls the element the array has there now; after the
\* last index emit returns count > 0
ForEachOp(e) ==
    LET d == Len(e.stack)
        f == e.stack[d]
        listeners == e.registry[f.name]
    IN  IF f.idx > f.len
        THEN [Pop(e) EXCEPT !.last = [op |-> "emit", name |-> f.name,
                                      snapshot |-> f.snapshot,
                                      called |-> f.called,
                                      ret |-> f.count > 0,
                                      threw |-> FALSE]]
        ELSE IF f.idx > Len(listeners)
        THEN [e EXCEPT !.stack[d].idx = @ + 1]
        ELSE LET entry == listeners[f.idx]
             IN  [e EXCEPT !.stack[d].idx = @ + 1,
                           !.stack[d].count = @ + 1,
                           !.stack[d].running = TRUE,
                           !.stack[d].cur = entry,
                           !.stack[d].called = Append(@, entry.reg),
                           !.runs[entry.reg] = @ + 1]

\* the listener that is running returns or throws.  A doOnce removes itself
\* after its listener has returned; an exception leaves forEach and emit.
ListenerEndsOp(e, beh) ==
    LET d == Len(e.stack)
        f == e.stack[d]
    IN  IF beh = "throw"
        THEN [Pop(e) EXCEPT !.last = [op |-> "emit", name |-> f.name,
                                      snapshot |-> f.snapshot,
                                      called |-> f.called,
                                      ret |-> FALSE, threw |-> TRUE]]
        ELSE LET e1 == [e EXCEPT !.stack[d].running = FALSE,
                                 !.finished[f.cur.reg] = @ + 1]
             IN  IF f.cur.once
                 THEN RemoveListenerOp(e1, f.name, Identity(f.cur))
                 ELSE e1

\* code runs outside any emit, or inside the listener that is running
CanCall(e) == IF e.stack = <<>> THEN TRUE ELSE Top(e).running

InitEmitter ==
    /\ DebounceNotMade
    /\ em = NewEmitter
    /\ bf = NotMade
    /\ ps = NotMade
    /\ modal = NotMade

EmOn ==
    /\ CanCall(em)
    /\ em.regs < MaxRegs
    /\ \E name \in Names, fn \in Fns, once \in BOOLEAN :
          em' = EmOnOp(em, name, fn, once)
    /\ UNCHANGED <<debounceVars, bf, ps, modal>>

EmRemoveListener ==
    /\ CanCall(em)
    /\ \E name \in Names, fn \in Fns :
          em' = RemoveListenerOp(em, name, <<"listener", fn>>)
    /\ UNCHANGED <<debounceVars, bf, ps, modal>>

EmEmit ==
    /\ CanCall(em)
    /\ em.emits < MaxEmits
    /\ \E name \in Names : em' = EmitOp(em, name)
    /\ UNCHANGED <<debounceVars, bf, ps, modal>>

EmForEach ==
    /\ ~CanCall(em)
    /\ em' = ForEachOp(em)
    /\ UNCHANGED <<debounceVars, bf, ps, modal>>

EmListenerEnds ==
    /\ em.stack # <<>>
    /\ Top(em).running
    /\ \E beh \in FuncBehaviours : em' = ListenerEndsOp(em, beh)
    /\ UNCHANGED <<debounceVars, bf, ps, modal>>

NextEmitter ==
    EmOn \/ EmRemoveListener \/ EmEmit \/ EmForEach \/ EmListenerEnds

SpecEmitter == InitEmitter /\ [][NextEmitter]_vars

\* ------------------------------------------ the registry without emits
\* on(), once() and removeListener() called outside any emit; the history
\* keeps what removeListener was called with last
RegistryOn ==
    /\ em.regs < MaxListeners
    /\ \E name \in Names, fn \in Fns, once \in BOOLEAN :
          em' = EmOnOp(em, name, fn, once)
    /\ UNCHANGED <<debounceVars, bf, ps, modal>>

RegistryRemoveListener ==
    /\ \E name \in Names, fn \in Fns :
          em' = [RemoveListenerOp(em, name, <<"listener", fn>>) EXCEPT
                    !.last = [op |-> "removeListener", name |-> name,
                              fn |-> fn]]
    /\ UNCHANGED <<debounceVars, bf, ps, modal>>

NextRegistry == RegistryOn \/ RegistryRemoveListener

SpecRegistry == InitEmitter /\ [][NextRegistry]_vars

\* C23: an emit that returns has called every listener that was registered
\* for the name when it began, each once and in the order of registration,
\* and returns true iff there was at least one.
C23_AsStated ==
    em.last.op = "emit" /\ ~em.last.threw =>
        /\ em.last.called = em.last.snapshot
        /\ em.last.ret = (em.last.snapshot # <<>>)

\* the registrations still in the registry
Registered(e) ==
    UNION {{e.registry[n][i].reg : i \in DOMAIN e.registry[n]} : n \in Names}

\* C24: a listener registered with once() is executed at most once, emits
\* made from inside a listener included, and once its first execution is
\* over it is no longer registered.
C24_AsStated ==
    \A r \in 1..em.regs :
        em.byOnce[r] =>
            /\ em.runs[r] <= 1
            /\ em.finished[r] >= 1 => r \notin Registered(em)

\* ===================================================== promiseAllSerial
\* An element of `tasks` is falsy, or a function that returns a promise
\* which resolves or rejects later, or something that throws when called.
TaskKinds == {"falsy", "resolves", "rejects", "throws"}

RECURSIVE SeqsUpTo(_, _)
SeqsUpTo(S, n) ==
    IF n = 0 THEN {<<>>}
    ELSE LET shorter == SeqsUpTo(S, n - 1)
         IN  shorter \cup {Append(q, x) : q \in {t \in shorter : Len(t) = n - 1},
                                         x \in S}

\* tasks.filter(Boolean): the indices that are kept
Kept(tasks) == {i \in DOMAIN tasks : tasks[i] # "falsy"}

\* promiseAllSerial(tasks) up to its return: the chain is built, no task
\* has been started; `out` is the promise returned, `started` the tasks
\* called so far, in the order they were called
PromiseAllSerial(isArray, tasks) ==
    [made |-> "serial", isArray |-> isArray, tasks |-> tasks,
     status |-> [i \in DOMAIN tasks |-> "idle"],
     started |-> <<>>,
     out |-> IF ~isArray \/ Kept(tasks) = {} THEN "resolved" ELSE "pending"]

\* the task the chain calls next, 0 if none
NextTask(p) ==
    LET waiting == {i \in Kept(p.tasks) : p.status[i] = "idle"}
    IN  IF waiting = {} THEN 0
        ELSE CHOOSE i \in waiting : \A j \in waiting : i <= j

\* the tasks before i that were kept
Earlier(p, i) == {j \in Kept(p.tasks) : j < i}

\* every link calling its task without waiting for the link before
ThenCallbackEager(p) ==
    LET i == NextTask(p)
    IN  IF i = 0 THEN p
        ELSE [p EXCEPT !.started = Append(@, i),
                       !.status[i] = IF p.tasks[i] = "throws"
                                     THEN "rejected" ELSE "running"]

\* future.then(() => next()): the callback of the next link runs once the
\* link before it is fulfilled
ThenCallback(p) ==
    LET i == NextTask(p)
    IN  IF i = 0 \/ \E j \in Earlier(p, i) : p.status[j] # "resolved"
        THEN p
        ELSE [p EXCEPT !.started = Append(@, i),
                       !.status[i] = IF p.tasks[i] = "throws"
                                     THEN "rejected" ELSE "running"]

\* the promise a running task returned settles
TaskSettles(p, i) ==
    [p EXCEPT !.status[i] = IF p.tasks[i] = "rejects"
                            THEN "rejected" ELSE "resolved"]

\* the last link of the chain settles: a rejection passes down every
\* link after it
ChainSettles(p) ==
    IF \E i \in Kept(p.tasks) : p.status[i] = "rejected"
    THEN [p EXCEPT !.out = "rejected"]
    ELSE IF \A i \in Kept(p.tasks) : p.status[i] = "resolved"
    THEN [p EXCEPT !.out = "resolved"]
    ELSE p

InitSerial ==
    /\ DebounceNotMade
    /\ bf = NotMade
    /\ em = NotMade
    /\ modal = NotMade
    /\ \/ ps = PromiseAllSerial(FALSE, <<>>)
       \/ \E tasks \in SeqsUpTo(TaskKinds, MaxTasks) :
             ps = PromiseAllSerial(TRUE, tasks)

SerialStart ==
    /\ ps.isArray
    /\ ps' = ThenCallback(ps)
    /\ ps' # ps
    /\ UNCHANGED <<debounceVars, bf, em, modal>>

SerialSettle ==
    /\ \E i \in DOMAIN ps.tasks :
          /\ ps.status[i] = "running"
          /\ ps' = TaskSettles(ps, i)
    /\ UNCHANGED <<debounceVars, bf, em, modal>>

SerialFinish ==
    /\ ps.out = "pending"
    /\ ps' = ChainSettles(ps)
    /\ ps' # ps
    /\ UNCHANGED <<debounceVars, bf, em, modal>>

NextSerial == SerialStart \/ SerialSettle \/ SerialFinish

SpecSerial == InitSerial /\ [][NextSerial]_vars

\* the tasks started are the first kept tasks, in array order
StartedInOrder ==
    /\ \A k \in DOMAIN ps.started : ps.started[k] \in Kept(ps.tasks)
    /\ \A k \in DOMAIN ps.started :
          Earlier(ps, ps.started[k]) =
              {ps.started[j] : j \in 1..(k - 1)}

\* C25: promiseAllSerial starts the non-falsy tasks in array order, one at
\* a time: a task is started only when every task before it has resolved;
\* the promise returned is resolved only when every task has resolved;
\* after a task has rejected no later task is started and the promise
\* returned is not resolved, and it is rejected only then; for a non-array
\* the promise returned is resolved at once and nothing is started.
C25_Serial ==
    /\ ~ps.isArray => ps.out = "resolved" /\ ps.started = <<>>
    /\ StartedInOrder
    /\ \A i \in DOMAIN ps.tasks :
          /\ ps.tasks[i] = "falsy" => ps.status[i] = "idle"
          /\ ps.status[i] # "idle" =>
                \A j \in Earlier(ps, i) : ps.status[j] = "resolved"
          /\ ps.status[i] = "rejected" =>
                /\ ps.out # "resolved"
                /\ \A j \in DOMAIN ps.tasks : j > i => ps.status[j] = "idle"
    /\ Cardinality({i \in DOMAIN ps.tasks : ps.status[i] = "running"}) <= 1
    /\ ps.out = "resolved" =>
          \A i \in Kept(ps.tasks) : ps.status[i] = "resolved"
    /\ ps.out = "rejected" =>
          \E i \in Kept(ps.tasks) : ps.status[i] = "rejected"

\* the second of three tasks rejected: the third was never started and the
\* promise returned is rejected
C25_Witness ==
    /\ ps.isArray
    /\ ps.tasks = <<"resolves", "rejects", "resolves">>
    /\ ps.started = <<1, 2>>
    /\ ps.status[3] = "idle"
    /\ ps.out = "rejected"

\* ======================================================= LightningModal
\* isOpen, options.promiseOnClose and promiseHandler of the component, and
\* the promises open() has returned.  promiseHandler is the index of the
\* promise whose resolve and reject it holds, 0 for the initial {}.
NoHandler == 0
Undefined == "undefined"    \* an argument or option that is not given

NoModalLast == [op |-> "new", threw |-> FALSE, promise |-> NoHandler,
                value |-> Undefined]

NewModal ==
    [made |-> "modal", isOpen |-> FALSE, promiseOnClose |-> Undefined,
     promiseHandler |-> NoHandler, promises |-> <<>>, last |-> NoModalLast]

\* the `options` argument of open(): none at all, or a config with or
\* without promiseOnClose ("" stands for a falsy value)
OpenInputs ==
    {[given |-> FALSE, promiseOnClose |-> Undefined]} \cup
    {[given |-> TRUE, promiseOnClose |-> c] :
        c \in {Undefined, "resolve", "reject", "toString", ""}}

\* resolve(value) or reject(value) of promise p: a promise settles once
Settle(m, p, how, value) ==
    IF m.promises[p].state # "pending" THEN m
    ELSE [m EXCEPT !.promises[p] =
              [state |-> IF how = "resolve" THEN "resolved" ELSE "rejected",
               value |-> value, by |-> m.last.op]]

\* promiseHandler is a plain object, {} or {resolve, reject}: under these
\* names it finds a function of Object.prototype that takes any one
\* argument, returns, and settles nothing
InheritedNames ==
    {"constructor", "hasOwnProperty", "isPrototypeOf", "propertyIsEnumerable",
     "toString", "valueOf", "toLocaleString",
     "__lookupGetter__", "__lookupSetter__"}

\* promiseHandler[name](value): resolve and reject are there once open() has
\* stored them, the functions of InheritedNames always.  Under any other
\* name the call throws: the name finds nothing, or a property that is no
\* function (__proto__), or a function that rejects the argument
\* (__defineGetter__, __defineSetter__)
CallHandler(m, name, value) ==
    IF name \in InheritedNames THEN m
    ELSE IF name \in {"resolve", "reject"} /\ m.promiseHandler # NoHandler
    THEN Settle(m, m.promiseHandler, name, value)
    ELSE [m EXCEPT !.last.threw = TRUE]

\* open(options): prepareOptions throws when it is given nothing to
\* destructure; the default of promiseOnClose is "reject"
OpenOp(m, options) ==
    LET m0 == [m EXCEPT !.last = [op |-> "open", threw |-> FALSE,
                                  promise |-> NoHandler, value |-> Undefined]]
        p == Len(m.promises) + 1
    IN  IF ~options.given THEN [m0 EXCEPT !.last.threw = TRUE]
        ELSE [m0 EXCEPT !.promiseOnClose =
                            IF options.promiseOnClose = Undefined
                            THEN "reject" ELSE options.promiseOnClose,
                        !.isOpen = TRUE,
                        !.promises = Append(@, [state |-> "pending",
                                                value |-> Undefined,
                                                by |-> "none"]),
                        !.promiseHandler = p,
                        !.last.promise = p]

CloseOp(m) == [m EXCEPT !.isOpen = FALSE]

\* handleActionClick resolving whatever the action
HandleActionClickResolves(m, actionEvent) ==
    LET m0 == [CloseOp(m) EXCEPT !.last = [op |-> "click", threw |-> FALSE,
                                           promise |-> m.promiseHandler,
                                           value |-> actionEvent]]
    IN  CallHandler(m0, "resolve", actionEvent)

\* handleActionClick(event), actionEvent being
\* event.target.dataset.actionEvent
HandleActionClick(m, actionEvent) ==
    LET m0 == [CloseOp(m) EXCEPT !.last = [op |-> "click", threw |-> FALSE,
                                           promise |-> m.promiseHandler,
                                           value |-> actionEvent]]
    IN  IF actionEvent = "cancel"
        THEN CallHandler(m0, "reject", actionEvent)
        ELSE CallHandler(m0, "resolve", actionEvent)

\* a promiseResult that is truthy and not a string, such as the click event
\* a handler bound in the template is called with
NotAString == "[object Event]"

\* closeModalHandler(promiseResult, promiseValue): promiseResult is a
\* string, or NotAString, or not given
CloseModalHandler(m, promiseResult, promiseValue) ==
    LET m0 == [m EXCEPT !.last = [op |-> "closeModalHandler",
                                  threw |-> FALSE,
                                  promise |-> m.promiseHandler,
                                  value |-> promiseValue]]
        truthy(x) == x \notin {Undefined, ""}
        name == IF promiseResult \in {Undefined, NotAString}
                THEN m.promiseOnClose ELSE promiseResult
        m1 == IF truthy(m.promiseOnClose) \/ truthy(promiseResult)
              THEN CallHandler(m0, name, promiseValue)
              ELSE m0
    IN  IF m1.last.threw THEN m1 ELSE CloseOp(m1)

\* handleContentAction(event), promiseType and data being those of
\* event.detail; the handler is called with the object { data }
HandleContentAction(m, promiseType, data) ==
    LET m0 == [CloseOp(m) EXCEPT !.last = [op |-> "contentAction",
                                           threw |-> FALSE,
                                           promise |-> m.promiseHandler,
                                           value |-> [data |-> data]]]
    IN  CallHandler(m0, IF promiseType = Undefined THEN "resolve"
                        ELSE promiseType, [data |-> data])

InitModal ==
    /\ DebounceNotMade
    /\ bf = NotMade
    /\ em = NotMade
    /\ ps = NotMade
    /\ modal = NewModal

ModalOpen ==
    /\ Len(modal.promises) < MaxOpens
    /\ \E options \in OpenInputs : modal' = OpenOp(modal, options)
    /\ UNCHANGED <<debounceVars, bf, em, ps>>

ModalClose ==
    /\ modal' = [CloseOp(modal) EXCEPT !.last = [NoModalLast EXCEPT
                                                    !.op = "close"]]
    /\ UNCHANGED <<debounceVars, bf, em, ps>>

\* handleActionClick with one of the action events, whatever isOpen is
ModalActionClick ==
    /\ \E actionEvent \in {"cancel", "confirm", "close"} :
          modal' = HandleActionClick(modal, actionEvent)
    /\ UNCHANGED <<debounceVars, bf, em, ps>>

ModalCloseModalHandler ==
    /\ \E promiseResult \in {Undefined, "resolve", "reject", "toString",
                             "other", NotAString},
          promiseValue \in {"{}", "value"} :
          modal' = CloseModalHandler(modal, promiseResult, promiseValue)
    /\ UNCHANGED <<debounceVars, bf, em, ps>>

\* handleContentAction with the detail of an action event of the body
\* component, whatever isOpen is
ModalContentAction ==
    /\ \E promiseType \in {Undefined, "resolve", "reject", "toString", "other"},
          data \in {"{}", "data"} :
          modal' = HandleContentAction(modal, promiseType, data)
    /\ UNCHANGED <<debounceVars, bf, em, ps>>

NextModal ==
    \/ ModalOpen
    \/ ModalClose
    \/ ModalActionClick
    \/ ModalCloseModalHandler
    \/ ModalContentAction

SpecModal == InitModal /\ [][NextModal]_vars

\* C26: open(options) opens the modal and returns a new promise that is
\* pending, and stays pending while the modal is open; a click on an action
\* after open() closes the modal and, the promise being still pending,
\* settles it: rejected with the action event when it is "cancel", resolved
\* with it otherwise; a promise that is settled already is left as it is,
\* and no other promise is touched.
C26_OpenThenClick ==
    /\ [](modal.isOpen =>
            /\ modal.promiseHandler = Len(modal.promises)
            /\ modal.promises[modal.promiseHandler].state = "pending")
    /\ []((modal.last.op = "open" /\ ~modal.last.threw) =>
            /\ modal.isOpen
            /\ modal.last.promise = modal.promiseHandler)
    /\ [][(modal'.last.op = "click" /\ modal.promiseHandler # NoHandler) =>
            LET h == modal.promiseHandler
                event == modal'.last.value
            IN  /\ ~modal'.isOpen
                /\ ~modal'.last.threw
                /\ modal'.promiseHandler = h
                /\ modal'.promises =
                      IF modal.promises[h].state = "pending"
                      THEN [modal.promises EXCEPT ![h] =
                               [state |-> IF event = "cancel"
                                          THEN "rejected" ELSE "resolved",
                                value |-> event, by |-> "click"]]
                      ELSE modal.promises]_vars

\* the modal was opened twice, the first promise resolved by a click on
\* "confirm" and the second rejected by a click on "cancel"
C26_Witness ==
    /\ modal.last.op = "click"
    /\ modal.last.value = "cancel"
    /\ Len(modal.promises) = 2
    /\ modal.promises[2].state = "rejected"
    /\ modal.promises[2].by = "click"
    /\ modal.promises[1].state = "resolved"
    /\ modal.promises[1].by = "click"
    /\ modal.promises[1].value = "confirm"

\* ============================================ claims on the debounce state
\* C27: whenever no wake-up is scheduled (timerId undefined), lastCallTime
\* is undefined: the trailing edge, by wake-up or by flush(), clears it
\* together with the timer handle.
C27_AsStated ==
    Created /\ timerId = NoTimer => lastCallTime = NoTime

\* C28 as stated: lastInvokeTime changes only in a step that invokes func.
C28_AsStated ==
    [][lastInvokeTime' # lastInvokeTime => last'.via # "none"]_vars

\* C28: lastInvokeTime is set to the current time by every invocation of
\* func and by every call that starts a burst (a call made with no wake-up
\* scheduled for which shouldInvoke holds), whether or not leading is set;
\* cancel() resets it to 0; nothing else changes it.
C28_InvokeTime ==
    [][/\ last'.via # "none" => lastInvokeTime' = now
       /\ (last'.op = "call" /\ timerId = NoTimer /\ ShouldInvoke(St, now))
             => lastInvokeTime' = now
       /\ last'.op = "cancel" => lastInvokeTime' = 0
       /\ lastInvokeTime' # lastInvokeTime =>
             \/ last'.via # "none"
             \/ last'.op = "call" /\ timerId = NoTimer /\ ShouldInvoke(St, now)
             \/ last'.op = "cancel"]_vars

\* the first call, made after time 0 with leading = false, has set
\* lastInvokeTime although func was not invoked
C28_Witness ==
    /\ ~cfg.leading
    /\ nCalls = 1
    /\ last.op = "call"
    /\ last.via = "none"
    /\ now > 0
    /\ lastInvokeTime = now

\* C29: a call made while a wake-up is scheduled and for which shouldInvoke is
\* false leaves the wake-up as it is (same handle, same due time, none
\* cancelled or added) and invokes nothing; it records its arguments and its
\* time, and returns the stored result.
C29_LeftRunning ==
    [][(last'.op = "call" /\ timerId # NoTimer /\ ~ShouldInvoke(St, now)) =>
          /\ timers' = timers
          /\ timerId' = timerId
          /\ last'.via = "none"
          /\ ~last'.threw
          /\ lastArgs' = nCalls'
          /\ lastCallTime' = now
          /\ lastInvokeTime' = lastInvokeTime
          /\ result' = result
          /\ last'.ret = result]_vars

\* a second call made at the time of the first, with wait = 1: the wake-up of
\* the first call is still the only one and still due at 1
C29_Witness ==
    /\ Created
    /\ cfg.timeToWait = 1
    /\ ~cfg.leading
    /\ now = 0
    /\ nCalls = 2
    /\ last.op = "call"
    /\ last.via = "none"
    /\ lastArgs = 2
    /\ timerId # NoTimer
    /\ Cardinality(timers) = 1
    /\ \E tm \in timers : tm.id = timerId /\ tm.due = 1

\* C30: a call made while a wake-up is scheduled invokes func synchronously
\* only when maxWait is set and the time since the last invocation has
\* reached maxWait.
C30_AsStated ==
    [][(last'.op = "call" /\ timerId # NoTimer /\ last'.via # "none") =>
          cfg.maxing /\ now - lastInvokeTime >= cfg.maxWait]_vars

\* C31: a wake-up that runs at time t while shouldInvoke is false invokes
\* nothing and schedules a new wake-up, which becomes the one held, after
\* wait - (t - lastCallTime), or after the smaller of that and
\* maxWait - (t - lastInvokeTime) when maxWait is set; that delay is
\* positive and at most wait.
C31_Remaining ==
    [][(last'.op = "timer" /\ ~ShouldInvoke(St, now)) =>
          LET sinceCall == now - lastCallTime
              sinceInvoke == now - lastInvokeTime
              remaining ==
                  IF cfg.maxing
                  THEN Min(cfg.wait - sinceCall, cfg.maxWait - sinceInvoke)
                  ELSE cfg.wait - sinceCall
          IN  /\ remaining > 0
              /\ remaining <= cfg.wait
              /\ last'.via = "none"
              /\ timerId' # NoTimer
              /\ \E tm \in timers' :
                    tm.id = timerId' /\ tm.due = now + remaining
              /\ <<lastArgs, lastCallTime, lastInvokeTime, result>>' =
                    <<lastArgs, lastCallTime, lastInvokeTime, result>>]_vars

\* a wake-up has been started again for less than wait, the maxWait ceiling
\* being nearer than the end of the wait
C31_Witness ==
    /\ last.op = "timer"
    /\ last.via = "none"
    /\ cfg.maxing
    /\ timerId # NoTimer
    /\ \E tm \in timers :
          /\ tm.id = timerId
          /\ tm.due - now = cfg.maxWait - (now - lastInvokeTime)
          /\ tm.due - now < cfg.wait - (now - lastCallTime)
          /\ tm.due - now > 0

\* C32 as stated: whenever func is invoked, no wake-up is held and the
\* pending arguments are cleared at the moment func starts to run.
C32_AsStated ==
    last.via # "none" =>
        last.begun.timerId = NoTimer /\ last.begun.lastArgs = NoArgs

\* C32: whenever func is invoked the pending arguments are cleared before
\* func starts to run; the handle of the wake-up is cleared too when the
\* invocation is made by a wake-up or by flush(), while on the leading edge
\* and in the tight-loop branch the trailing wake-up is already scheduled
\* and held when func starts.  A call func makes to its own debounced
\* function is then an ordinary call in that state: afterwards a wake-up
\* is held, and the arguments of that call are pending or have been invoked.
C32_BeforeFunc ==
    /\ last.via # "none" =>
          /\ last.begun.lastArgs = NoArgs
          /\ last.via \in {"timer", "flush"} => last.begun.timerId = NoTimer
          /\ last.via \in {"leading", "maxing"} =>
                last.begun.timerId # NoTimer
    /\ last.re = "call" =>
          /\ last.via # "none"
          /\ timerId \in TimerIds(timers)
          /\ lastArgs = ReentrantArgs \/ last.inv = ReentrantArgs

\* func, invoked by a wake-up, has called its debounced function: that
\* call started with no wake-up held and has scheduled one for its
\* arguments
C32_Witness ==
    /\ last.op = "timer"
    /\ last.re = "call"
    /\ last.via = "timer"
    /\ last.inv # ReentrantArgs
    /\ last.begun.timerId = NoTimer
    /\ lastArgs = ReentrantArgs
    /\ timerId # NoTimer

\* C33 as stated: a step other than cancel() after which no wake-up is held,
\* one being held before, invokes func.
C33_AsStated ==
    [][(timerId # NoTimer /\ timerId' = NoTimer /\ last'.op # "cancel") =>
          last'.via # "none"]_vars

\* C33: the handle of the wake-up is given up only by cancel(), by a
\* wake-up and by flush(); cancel() never invokes func, and a wake-up or
\* flush() that gives the handle up invokes func exactly when trailing is
\* set and arguments are pending, and invokes nothing otherwise.
C33_LeavesPending ==
    [][(timerId # NoTimer /\ timerId' = NoTimer) =>
          /\ last'.op \in {"cancel", "timer", "flush"}
          /\ last'.op = "cancel" => last'.via = "none"
          /\ last'.op \in {"timer", "flush"} =>
                /\ (last'.via # "none") = (cfg.trailing /\ lastArgs # NoArgs)
                /\ last'.via # "none" =>
                      last'.via = last'.op /\ last'.inv = lastArgs]_vars

\* with leading and trailing set, the only call was invoked on the leading
\* edge and the wake-up has ended the burst without invoking anything
C33_Witness ==
    /\ cfg.leading
    /\ cfg.trailing
    /\ nCalls = 1
    /\ completed = 1
    /\ last.op = "timer"
    /\ last.via = "none"
    /\ timerId = NoTimer
    /\ lastArgs = NoArgs

\* C34 as stated: when the time read by a call or by a wake-up is earlier
\* than lastCallTime, shouldInvoke is true, and remainingWait is never
\* evaluated with a negative elapsed time: when a wake-up schedules again,
\* neither the time since the last call nor the time since the last
\* invocation is negative.
C34_AsStated ==
    [][/\ (/\ last'.op \in {"call", "timer"}
           /\ lastCallTime # NoTime
           /\ now < lastCallTime) => ShouldInvoke(St, now)
       /\ (last'.op = "timer" /\ timerId' # NoTimer) =>
             /\ now - lastCallTime >= 0
             /\ now - lastInvokeTime >= 0]_vars

\* C34: when the time read by a call or by a wake-up is earlier than
\* lastCallTime, shouldInvoke is true; a wake-up then runs the trailing edge
\* (the handle is given up, nothing is scheduled, func is invoked if
\* trailing is set and arguments are pending); and whenever a wake-up
\* schedules again, the time since the last call is not negative and less
\* than wait (the time since the last invocation may be negative).
C34_ClockBack ==
    [][/\ (/\ last'.op \in {"call", "timer"}
           /\ lastCallTime # NoTime
           /\ now < lastCallTime) =>
             /\ ShouldInvoke(St, now)
             /\ last'.op = "timer" =>
                   /\ timerId' = NoTimer
                   /\ timers' \subseteq timers
                   /\ (last'.via = "timer") =
                         (cfg.trailing /\ lastArgs # NoArgs)
       /\ (last'.op = "timer" /\ timerId' # NoTimer) =>
             /\ lastCallTime # NoTime
             /\ now - lastCallTime >= 0
             /\ now - lastCallTime < cfg.timeToWait]_vars

\* a wake-up has run at a time earlier than the last call and has invoked
\* func on the trailing edge
C34_Witness ==
    /\ last.op = "timer"
    /\ last.via = "timer"
    /\ lastCallTime # NoTime
    /\ now < lastCallTime
    /\ cfg.timeToWait > 0
    /\ timerId = NoTimer

\* C35: in every state, closeModalHandler(promiseResult, promiseValue)
\* returns with the modal closed and with the promise of the current open()
\* settled.
C35_AsStated ==
    modal.last.op = "closeModalHandler" =>
        /\ ~modal.last.threw
        /\ ~modal.isOpen
        /\ modal.last.promise # NoHandler
        /\ modal.promises[modal.last.promise].state # "pending"

\* the places of `listeners` that hold the function fn itself (the doOnce
\* closure of a once(name, fn) is another function)
Holds(listeners, fn) ==
    {i \in DOMAIN listeners : ~listeners[i].once /\ listeners[i].fn = fn}

\* C36: removeListener(name, listener) takes the earliest element that is
\* `listener` out of the array of `name` and leaves the other elements of
\* that array in their order; it changes nothing when the array has no
\* such element or the event has no listeners; the arrays of the other
\* events and everything else stay as they are.
C36_RemoveListener ==
    [][(em'.last.op = "removeListener" /\ em'.regs = em.regs) =>
          LET name == em'.last.name
              listeners == em.registry[name]
              held == Holds(listeners, em'.last.fn)
              i == CHOOSE k \in held : \A j \in held : k <= j
          IN  /\ em'.registry[name] =
                    IF held = {} THEN listeners
                    ELSE SubSeq(listeners, 1, i - 1) \o
                         SubSeq(listeners, i + 1, Len(listeners))
              /\ \A other \in Names \ {name} :
                    em'.registry[other] = em.registry[other]
              /\ em' = [em EXCEPT !.registry = em'.registry,
                                  !.last = em'.last]]_vars

\* f, g and f again were registered for "a" and removeListener("a", f) has
\* taken out the first f: g and the second f are left, in that order
C36_Witness ==
    /\ em.last.op = "removeListener"
    /\ em.last.name = "a"
    /\ em.last.fn = "f"
    /\ em.regs = 3
    /\ Len(em.registry["a"]) = 2
    /\ em.registry["a"][1] = [reg |-> 2, fn |-> "g", once |-> FALSE]
    /\ em.registry["a"][2] = [reg |-> 3, fn |-> "f", once |-> FALSE]

\* ============================================================ debounce2
\* A payload is a plain value, or an event whose target has a value; the
\* k-th call passes the value k one way or the other.
PayloadKinds == {"value", "event"}
NoPayload == [kind |-> "none", v |-> 0]

\* `timeout` when the argument is omitted
DefaultTimeout == 400

NoLast2 == [op |-> "create", threw |-> FALSE, invoked |-> NoPayload]

\* debounce2(func, isEvent, timeout): the closure, with the history: how
\* many calls were made, the time and the payload of the latest call and
\* whether it threw, and how often func was invoked since that call
Debounce2(isEvent, timeout) ==
    [made |-> "debounce2",
     isEvent |-> Truthy(isEvent),
     timeout |-> IF timeout = NoWait THEN DefaultTimeout ELSE timeout,
     internalTimer |-> NoTimer,
     calls |-> 0, callTime |-> NoTime, payload |-> NoPayload,
     invocations |-> 0, last |-> NoLast2]

\* isEvent ? { value: payload.target.value } : payload
CalleeArguments(isEvent, payload) ==
    IF isEvent THEN [kind |-> "wrapped", v |-> payload.v] ELSE payload

\* reading payload.target.value of a payload that has no target throws
ReadThrows(isEvent, payload) == isEvent /\ payload.kind # "event"

\* the function returned by debounce2 without its clearTimeout
Debounce2CallKeepsTimer(d, ts, payload, time) ==
    LET id == FreshId(ts, d.internalTimer)
        d1 == [d EXCEPT !.calls = @ + 1, !.callTime = time,
                        !.payload = payload, !.invocations = 0]
    IN  IF ReadThrows(d.isEvent, payload)
        THEN [d |-> [d1 EXCEPT !.last = [op |-> "call", threw |-> TRUE,
                                         invoked |-> NoPayload]],
              timers |-> ts]
        ELSE [d |-> [d1 EXCEPT !.internalTimer = id,
                               !.last = [op |-> "call", threw |-> FALSE,
                                         invoked |-> NoPayload]],
              timers |-> ts \cup
                  {[id |-> id, due |-> time + Max(d.timeout, 0),
                    kind |-> "timeout",
                    args |-> CalleeArguments(d.isEvent, payload)]}]

\* the function returned by debounce2, called with payload at `time`: the
\* closure and the backend after the call
Debounce2Call(d, ts, payload, time) ==
    LET ts1 == ClearTimeout(ts, d.internalTimer)
        id == FreshId(ts1, d.internalTimer)
        d1 == [d EXCEPT !.calls = @ + 1, !.callTime = time,
                        !.payload = payload, !.invocations = 0]
    IN  IF ReadThrows(d.isEvent, payload)
        THEN [d |-> [d1 EXCEPT !.last = [op |-> "call", threw |-> TRUE,
                                         invoked |-> NoPayload]],
              timers |-> ts1]
        ELSE [d |-> [d1 EXCEPT !.internalTimer = id,
                               !.last = [op |-> "call", threw |-> FALSE,
                                         invoked |-> NoPayload]],
              timers |-> ts1 \cup
                  {[id |-> id, due |-> time + Max(d.timeout, 0),
                    kind |-> "timeout",
                    args |-> CalleeArguments(d.isEvent, payload)]}]

\* the callback of the wake-up tm: () => func(calleeArguments)
Debounce2Timer(d, tm) ==
    [d EXCEPT !.invocations = @ + 1,
              !.last = [op |-> "timer", threw |-> FALSE,
                        invoked |-> tm.args]]

InitDebounce2 ==
    /\ cfg = NotCreated("undefined")
    /\ last = NoLast
    /\ ClosureInit
    /\ bf = NotMade
    /\ em = NotMade
    /\ ps = NotMade
    /\ modal = NotMade
    /\ \E isEvent \in {NoOpt, 0, 1}, timeout \in WaitInputs(MaxTimeout2) :
          d2 = Debounce2(isEvent, timeout)

Call2 ==
    /\ d2.calls < MaxCalls2
    /\ \E kind \in PayloadKinds :
          LET r == Debounce2Call(d2, timers,
                                 [kind |-> kind, v |-> d2.calls + 1], now)
          IN  d2' = r.d /\ timers' = r.timers
    /\ UNCHANGED <<cfg, now, lastArgs, result, timerId, lastCallTime,
                   lastInvokeTime, nCalls, cancelled, burst, last,
                   completed, bf, em, ps, modal>>

\* a wake-up that is due runs, possibly late
Fire2 ==
    /\ \E tm \in timers :
          /\ tm.due <= now
          /\ timers' = timers \ {tm}
          /\ d2' = Debounce2Timer(d2, tm)
    /\ UNCHANGED <<cfg, now, lastArgs, result, timerId, lastCallTime,
                   lastInvokeTime, nCalls, cancelled, burst, last,
                   completed, bf, em, ps, modal>>

Tick2 ==
    /\ TickN(MaxTime2)
    /\ UNCHANGED burst

NextDebounce2 == Call2 \/ Fire2 \/ Tick2

SpecDebounce2 == InitDebounce2 /\ [][NextDebounce2]_vars

\* C37 as stated: at most one wake-up is outstanding; a call invokes
\* nothing; func is invoked only when timeout has passed since the latest
\* call, with the payload of that call; and once no wake-up is outstanding
\* after a call, func has been invoked exactly once since that call.
C37_AsStated ==
    /\ Cardinality(timers) <= 1
    /\ d2.last.op = "call" => d2.invocations = 0
    /\ d2.last.op = "timer" =>
          /\ now - d2.callTime >= d2.timeout
          /\ d2.last.invoked = d2.payload
    /\ d2.invocations <= 1
    /\ d2.calls > 0 /\ timers = {} => d2.invocations = 1

\* C37: at most one wake-up is outstanding; a call invokes nothing; func is
\* invoked only when timeout has passed since the latest call, and with
\* what that call computed from its payload: the payload itself, or
\* { value: payload.target.value } when isEvent is set.  After a call that
\* returned, its wake-up is outstanding and func was not invoked, or no
\* wake-up is outstanding and func was invoked exactly once.  A call that
\* throws (isEvent set, payload without target) has cleared the wake-up of
\* the call before and scheduled none: func is not invoked for either.
C37_Quiet ==
    /\ Cardinality(timers) <= 1
    /\ d2.last.op = "call" => d2.invocations = 0
    /\ d2.last.op = "timer" =>
          /\ now - d2.callTime >= d2.timeout
          /\ d2.last.invoked = CalleeArguments(d2.isEvent, d2.payload)
          /\ d2.isEvent => d2.payload.kind = "event"
    /\ d2.calls > 0 =>
          IF ReadThrows(d2.isEvent, d2.payload)
          THEN timers = {} /\ d2.invocations = 0
          ELSE \/ /\ d2.invocations = 0
                  /\ timers = {[id |-> d2.internalTimer,
                                 due |-> d2.callTime + d2.timeout,
                                 kind |-> "timeout",
                                 args |-> CalleeArguments(d2.isEvent,
                                                          d2.payload)]}
               \/ d2.invocations = 1 /\ timers = {}

\* three calls were made less than timeout apart, with events; func has
\* been invoked once, with the value of the target of the third
C37_Witness ==
    /\ d2.isEvent
    /\ d2.timeout = 2
    /\ d2.calls = 3
    /\ d2.callTime = 2
    /\ d2.last.op = "timer"
    /\ d2.last.invoked = [kind |-> "wrapped", v |-> 3]
    /\ d2.invocations = 1
    /\ timers = {}

====
